---------------------------- MODULE Spec2Model ----------------------------
(***************************************************************************)
(* A model of src/main.py: the list extractor extract_list, the completion *)
(* wrapper generate, and the collection / output / save phases of main().  *)
(*                                                                         *)
(* A text is a sequence of atoms.  An atom is one character, except four   *)
(* multi-character atoms that the code treats as a unit: the code fence of *)
(* three backticks, its annotations json and python, and the escape        *)
(* sequence backslash-n.  A parsed Python value is a record [kind, val].   *)
(***************************************************************************)
EXTENDS Integers, Sequences, FiniteSets, TLC

VARIABLES
    pc,             \* position of main(): "loop" (line 187), "request" (204),
                    \* "ensure" (227), "output" (239), "save" (258), "done",
                    \* "crashed" (an exception left main)
    n,              \* line 139: the validated sample count
    system_prompt,  \* line 153
    all_inputs,     \* line 181
    unique_inputs,  \* lines 188, 220, 229
    chunk_index,    \* line 182
    missing,        \* line 193
    chunk_size,     \* line 195
    payload,        \* lines 166-173: the last request sent by generate
    http,           \* line 175: how the last request ended
    inputs_text,    \* line 206
    current_inputs, \* line 207
    i,              \* line 237
    output,         \* line 240
    dataset,        \* line 232
    written,        \* lines 260-261: the datasets dumped to the output file
    outcome,        \* lines 262-266: the final log line
    text,           \* the argument of a stand-alone call of extract_list
    listed,         \* the fencing and the strings that text was written from,
                    \* when it was written as a list literal
    result          \* what that call returned or raised

vars == <<pc, n, system_prompt, all_inputs, unique_inputs, chunk_index, missing,
          chunk_size, payload, http, inputs_text, current_inputs, i, output,
          dataset, written, outcome, text, listed, result>>

(***************************************************************************)
(* Atoms and Python values                                                 *)
(***************************************************************************)
LB == "["
RB == "]"
LP == "("
RP == ")"
DQ == "\""
SQ == "'"
COMMA == ","
SP == " "
NL == "\n"
ESCN == "\\n"
FENCE == "<3 backticks>"
JSON == "json"
PYTHON == "python"
ONE == "1"

StrV(s) == [kind |-> "str", val |-> s]
IntV(k) == [kind |-> "int", val |-> k]
ListV(vs) == [kind |-> "list", val |-> vs]
TupleV(vs) == [kind |-> "tuple", val |-> vs]
NoneV == [kind |-> "none", val |-> <<>>]
\* A local name that has not been assigned yet.
Unset == [kind |-> "unset", val |-> <<>>]

\* Python's == on the values the parser can produce.
RECURSIVE PyEq(_, _)
PyEq(x, y) ==
    /\ x.kind = y.kind
    /\ IF x.kind \in {"list", "tuple"}
       THEN /\ Len(x.val) = Len(y.val)
            /\ \A k \in 1..Len(x.val) : PyEq(x.val[k], y.val[k])
       ELSE x.val = y.val

\* hash(v) succeeds: lists are unhashable, a tuple is hashable when its
\* elements are.
RECURSIVE Hashable(_)
Hashable(v) ==
    CASE v.kind = "list" -> FALSE
      [] v.kind = "tuple" -> \A k \in 1..Len(v.val) : Hashable(v.val[k])
      [] OTHER -> TRUE

\* len(v) succeeds.
HasLen(v) == v.kind \in {"str", "list", "tuple"}

\* bool(v)
Truthy(v) ==
    IF v.kind = "int" THEN v.val # 0 ELSE Len(v.val) > 0

(***************************************************************************)
(* extract_list (lines 25-54)                                              *)
(***************************************************************************)

\* re.sub(r'```(?:python|json)?', '', response_text), line 34
RECURSIVE StripFences(_)
StripFences(s) ==
    IF s = <<>> THEN <<>>
    ELSE IF Head(s) = FENCE
         THEN IF Len(s) >= 2 /\ s[2] \in {PYTHON, JSON}
              THEN StripFences(SubSeq(s, 3, Len(s)))
              ELSE StripFences(Tail(s))
         ELSE <<Head(s)>> \o StripFences(Tail(s))

IsSpace(c) == c \in {SP, NL}

\* str.strip()
RECURSIVE Strip(_)
Strip(s) ==
    IF s = <<>> THEN <<>>
    ELSE IF IsSpace(Head(s)) THEN Strip(Tail(s))
    ELSE IF IsSpace(s[Len(s)]) THEN Strip(SubSeq(s, 1, Len(s) - 1))
    ELSE s

\* str.find(c) and str.rfind(c): 0-based, -1 when c does not occur
Find(s, c) ==
    IF \E k \in 1..Len(s) : s[k] = c
    THEN (CHOOSE k \in 1..Len(s) : s[k] = c /\ \A j \in 1..(k - 1) : s[j] # c) - 1
    ELSE -1

RFind(s, c) ==
    IF \E k \in 1..Len(s) : s[k] = c
    THEN (CHOOSE k \in 1..Len(s) : s[k] = c /\ \A j \in (k + 1)..Len(s) : s[j] # c) - 1
    ELSE -1

\* The outcome of a parsing step: the value read and the position after it.
Fail == [ok |-> FALSE, val |-> IntV(0), pos |-> 0]

\* Whitespace between tokens; inside brackets a newline is whitespace too.
RECURSIVE SkipWs(_, _)
SkipWs(s, p) == IF p <= Len(s) /\ IsSpace(s[p]) THEN SkipWs(s, p + 1) ELSE p

\* At the top level of the expression only blanks are skipped.
RECURSIVE SkipSp(_, _)
SkipSp(s, p) == IF p <= Len(s) /\ s[p] = SP THEN SkipSp(s, p + 1) ELSE p

\* The escape sequence backslash-n stands for a newline.
Decode(s) == [k \in 1..Len(s) |-> IF s[k] = ESCN THEN NL ELSE s[k]]

\* The first position >= p where a closing triple quote starts, 0 if none.
RECURSIVE CloseTriple(_, _, _)
CloseTriple(s, q, p) ==
    IF p + 2 > Len(s) THEN 0
    ELSE IF s[p] = q /\ s[p + 1] = q /\ s[p + 2] = q THEN p
    ELSE CloseTriple(s, q, p + 1)

\* The position >= p of the closing quote of a one-line string, 0 if the line
\* or the text ends first.
RECURSIVE CloseSingle(_, _, _)
CloseSingle(s, q, p) ==
    IF p > Len(s) \/ s[p] = NL THEN 0
    ELSE IF s[p] = q THEN p
    ELSE CloseSingle(s, q, p + 1)

\* A triple-quoted literal opened at s[p] whose closing quotes start at c.
TripleLit(s, p, c) ==
    IF c = 0 THEN Fail
    ELSE [ok |-> TRUE, val |-> Decode(SubSeq(s, p + 3, c - 1)), pos |-> c + 3]

\* A one-line literal opened at s[p] and closed at c.
LineLit(s, p, c) ==
    IF c = 0 THEN Fail
    ELSE [ok |-> TRUE, val |-> Decode(SubSeq(s, p + 1, c - 1)), pos |-> c + 1]

\* One string literal starting at the quote s[p].
StrLit(s, p) ==
    IF p + 2 <= Len(s) /\ s[p + 1] = s[p] /\ s[p + 2] = s[p]
    THEN TripleLit(s, p, CloseTriple(s, s[p], p + 3))
    ELSE LineLit(s, p, CloseSingle(s, s[p], p + 1))

\* Adjacent string literals are concatenated: lit is the literal just read,
\* acc the text of those before it.
RECURSIVE StrConcat(_, _, _)
StrNext(s, acc, lit, q) ==
    IF q <= Len(s) /\ s[q] \in {DQ, SQ}
    THEN StrConcat(s, q, acc \o lit.val)
    ELSE [ok |-> TRUE, val |-> StrV(acc \o lit.val), pos |-> lit.pos]

StrAfter(s, acc, lit) ==
    IF ~lit.ok THEN Fail ELSE StrNext(s, acc, lit, SkipWs(s, lit.pos))

StrConcat(s, p, acc) == StrAfter(s, acc, StrLit(s, p))

\* A decimal literal made of the digit 1.
RECURSIVE IntLit(_, _, _)
IntLit(s, p, acc) ==
    IF p <= Len(s) /\ s[p] = ONE THEN IntLit(s, p + 1, 10 * acc + 1)
    ELSE [ok |-> TRUE, val |-> IntV(acc), pos |-> p]

\* A display that has been opened and not yet closed: its closing bracket,
\* the elements read so far, and whether a comma has been read.  The
\* expression itself is the bottom frame, which no bracket closes.
Frame(close) == [close |-> close, acc |-> <<>>, comma |-> FALSE]

\* The value of a closed frame: a list, a tuple, or for (x) the value x.
FrameValue(f) ==
    IF f.close = RB THEN ListV(f.acc)
    ELSE IF Len(f.acc) = 1 /\ ~f.comma THEN f.acc[1]
    ELSE TupleV(f.acc)

\* The stack after the value v has been read into its top frame.
Deliver(stack, v) ==
    [stack EXCEPT ![Len(stack)].acc = Append(stack[Len(stack)].acc, v)]

ParseState(p, stack, mode, status) ==
    [p |-> p, stack |-> stack, mode |-> mode, status |-> status]

Failure(st) == [st EXCEPT !.status = "fail"]

\* The stack after its top frame has been closed and its value read into
\* the frame below.
Close(st, q) ==
    ParseState(q + 1,
               Deliver(SubSeq(st.stack, 1, Len(st.stack) - 1),
                       FrameValue(st.stack[Len(st.stack)])),
               "after_value", "run")

\* A literal that is no display, read at s[q].
Scalar(s, q) ==
    IF s[q] \in {DQ, SQ} THEN StrConcat(s, q, <<>>)
    ELSE IF s[q] = ONE THEN IntLit(s, q, 0)
    ELSE Fail

\* The parser after the scalar v has been read, or has failed to be.
AfterScalar(st, v) ==
    IF v.ok THEN ParseState(v.pos, Deliver(st.stack, v.val), "after_value", "run")
    ELSE Failure(st)

\* One step of the parser at the token s[q].  In mode "value" a value or
\* the closing bracket is expected, in mode "after_value" a comma or the
\* closing bracket.
StepAt(s, st, q, depth, top) ==
    IF q > Len(s)
    THEN IF depth = 1 /\ top.acc # <<>> THEN [st EXCEPT !.status = "ok"]
         ELSE Failure(st)
    ELSE IF depth > 1 /\ s[q] = top.close THEN Close(st, q)
    ELSE IF st.mode = "after_value"
         THEN IF s[q] = COMMA
              THEN ParseState(q + 1, [st.stack EXCEPT ![depth].comma = TRUE],
                              "value", "run")
              ELSE Failure(st)
    ELSE IF s[q] = LB
         THEN ParseState(q + 1, Append(st.stack, Frame(RB)), "value", "run")
    ELSE IF s[q] = LP
         THEN ParseState(q + 1, Append(st.stack, Frame(RP)), "value", "run")
    ELSE AfterScalar(st, Scalar(s, q))

\* Outside all brackets a newline is no whitespace.
ParseStep(s, st) ==
    StepAt(s, st,
           IF Len(st.stack) = 1 THEN SkipSp(s, st.p) ELSE SkipWs(s, st.p),
           Len(st.stack), st.stack[Len(st.stack)])

RECURSIVE Parse(_, _)
Parse(s, st) == IF st.status = "run" THEN Parse(s, ParseStep(s, st)) ELSE st

\* The value literal_eval returns when the parser stops in st.
Evaluated(st) ==
    IF st.status = "ok"
    THEN [ok |-> TRUE, val |-> FrameValue(st.stack[1])]
    ELSE [ok |-> FALSE, val |-> IntV(0)]

\* ast.literal_eval(list_str), line 44: ok is FALSE when it raises.
literal_eval(s) == Evaluated(Parse(s, ParseState(1, <<Frame("")>>, "value", "run")))

\* str.split('\n')
RECURSIVE SplitNL(_, _)
SplitNL(s, cur) ==
    IF s = <<>> THEN <<cur>>
    ELSE IF Head(s) = NL THEN <<cur>> \o SplitNL(Tail(s), <<>>)
    ELSE SplitNL(Tail(s), Append(cur, Head(s)))

\* [inp.strip() for inp in lines if inp.strip()], line 53
\* Line 53 with a slip: the empty lines are kept.
StripLines_KeepsBlank(lines) == [k \in 1..Len(lines) |-> StrV(Strip(lines[k]))]

RECURSIVE StripLines(_)
StripLines(lines) ==
    IF lines = <<>> THEN <<>>
    ELSE IF Strip(Head(lines)) # <<>>
         THEN <<StrV(Strip(Head(lines)))>> \o StripLines(Tail(lines))
         ELSE StripLines(Tail(lines))

Raise(msg) == [ok |-> FALSE, err |-> msg, val |-> <<>>]

\* Line 52 with a slip: len(inputs) == 1 is not asked for.
CheckedList_SplitFirst(inputs) ==
    IF ~inputs.ok THEN Raise("Error parsing list from response.")
    ELSE IF inputs.val.kind # "list" THEN Raise("Parsed object is not a list.")
    ELSE IF /\ Len(inputs.val.val) >= 1
            /\ inputs.val.val[1].kind = "str"
            /\ \E k \in 1..Len(inputs.val.val[1].val) : inputs.val.val[1].val[k] = NL
         THEN [ok |-> TRUE, err |-> "",
               val |-> StripLines(SplitNL(inputs.val.val[1].val, <<>>))]
    ELSE [ok |-> TRUE, err |-> "", val |-> inputs.val.val]

\* lines 48-54, for the value inputs of literal_eval
CheckedList(inputs) ==
    IF ~inputs.ok THEN Raise("Error parsing list from response.")
    ELSE IF inputs.val.kind # "list" THEN Raise("Parsed object is not a list.")
    ELSE IF /\ Len(inputs.val.val) = 1
            /\ inputs.val.val[1].kind = "str"
            /\ \E k \in 1..Len(inputs.val.val[1].val) : inputs.val.val[1].val[k] = NL
         THEN [ok |-> TRUE, err |-> "",
               val |-> StripLines(SplitNL(inputs.val.val[1].val, <<>>))]
    ELSE [ok |-> TRUE, err |-> "", val |-> inputs.val.val]

\* Line 40 with a slip: a text without a list gives the empty list.
ListIn_EmptyForNoList(cleaned_text, start, end) ==
    IF start = -1 \/ end = -1 \/ end < start
    THEN [ok |-> TRUE, err |-> "", val |-> <<>>]
    ELSE CheckedList(literal_eval(SubSeq(cleaned_text, start + 1, end + 1)))

\* lines 37-54
ListIn(cleaned_text, start, end) ==
    IF start = -1 \/ end = -1 \/ end < start
    THEN Raise("No valid list found in the response.")
    ELSE CheckedList(literal_eval(SubSeq(cleaned_text, start + 1, end + 1)))

\* lines 37-38
Located(cleaned_text) ==
    ListIn(cleaned_text, Find(cleaned_text, LB), RFind(cleaned_text, RB))

\* extract_list(response_text): ok is FALSE when it raises ValueError, and
\* val is the returned list otherwise.
extract_list(response_text) == Located(Strip(StripFences(response_text)))

(***************************************************************************)
(* Bounds and the inputs of a run                                          *)
(***************************************************************************)
\* The largest sample count a run asks for.
MaxN == 9
\* The number of chunk requests after which the model stops following a run.
MaxChunks == 3

\* line 10
MAX_LOG_LENGTH == 200

\* Ten one-letter inputs; none of the letters is a string prefix of Python.
Letters == <<"a", "c", "d", "g", "i", "k", "l", "m", "w", "z">>
Item(k) == <<Letters[k]>>
Items(a, b) == [k \in 1..(b - a + 1) |-> Item(a + k - 1)]

Quote(s) == <<DQ>> \o s \o <<DQ>>

RECURSIVE Join(_)
Join(strs) ==
    IF strs = <<>> THEN <<>>
    ELSE IF Len(strs) = 1 THEN Quote(strs[1])
    ELSE Quote(strs[1]) \o <<COMMA, SP>> \o Join(Tail(strs))

\* The text of a list of strings, as the prompt of line 200 asks for it.
RenderList(strs) == <<LB>> \o Join(strs) \o <<RB>>

\* The value of listed for a text that was not written from a list.
NotListed == [fencing |-> "none", items |-> <<>>, literal |-> FALSE]

\* The response texts a model gives to a chunk request.
ResponseTexts ==
    { RenderList(Items(1, 1)),                          \* ["a"]
      RenderList(Items(1, 2)),                          \* ["a", "c"]
      RenderList(<<Item(2), Item(3), Item(2)>>),        \* ["c", "d", "c"]
      RenderList(Items(2, 9)),                          \* eight inputs
      <<FENCE, JSON, NL>> \o RenderList(Items(1, Len(Letters))) \o <<NL, FENCE>>,
      <<LB, DQ, DQ, COMMA, SP, LP, DQ, "a", DQ, COMMA, RP, RB>>,  \* ["", ("a",)]
      <<LB, DQ, "g", ESCN, "i", DQ, RB>>,               \* ["g\ni"]
      <<LB, ONE, RB>>,                                  \* [1]
      <<LB, LB, DQ, "a", DQ, RB, RB>>,                  \* [["a"]]
      <<LB, RB>>,                                       \* []
      <<"a", SP, "c">>,                                 \* prose without a list
      <<>> }

SystemPrompts == {<<>>, <<"w">>}

\* What the endpoint does with a request: the call raises (the connection
\* fails, the body is not JSON, choices[0].message.content is missing), or
\* the body holds a content, which is a string or null.
Failures == {"network_error", "malformed_json", "missing_content"}
Failed(kind) == [kind |-> kind, content |-> NoneV]
Ok(content) == [kind |-> "ok", content |-> content]

\* The completion the model writes for an input of the dataset.
Answer(inp) == IF inp.kind = "str" THEN inp.val \o <<"!">> ELSE <<"!">>

ChunkResponses ==
    {Failed(k) : k \in Failures} \cup {Ok(NoneV)} \cup {Ok(StrV(t)) : t \in ResponseTexts}

OutputResponses(inp) ==
    {Failed(k) : k \in Failures} \cup {Ok(NoneV), Ok(StrV(<<>>)), Ok(StrV(Answer(inp)))}

\* The prompt of lines 198-201, which names the chunk size.
Prompt(size) == [kind |-> "prompt", val |-> size]

(***************************************************************************)
(* Helpers of main()                                                       *)
(***************************************************************************)
\* payload["messages"], lines 166-173
Payload(user_input, system_message) ==
    IF system_message # <<>>
    THEN <<[role |-> "system", content |-> StrV(system_message)],
           [role |-> "user", content |-> user_input]>>
    ELSE <<[role |-> "user", content |-> user_input]>>

\* generate with a slip: a failed call returns a list text left over from an
\* earlier call instead of "".
generate_StaleOnFailure(response) ==
    IF response.kind \in Failures THEN StrV(RenderList(Items(1, 1)))
    ELSE response.content

\* generate, lines 174-179: what it returns for an answer of the endpoint
generate(response) ==
    IF response.kind \in Failures THEN StrV(<<>>) ELSE response.content

\* truncate(text) raises TypeError: len() of a value without a length, or a
\* long list or tuple concatenated with "..."
truncate_raises(v) ==
    \/ ~HasLen(v)
    \/ v.kind # "str" /\ Len(v.val) > MAX_LOG_LENGTH

\* truncate, lines 12-16
truncate(v) ==
    IF Len(v.val) <= MAX_LOG_LENGTH THEN v
    ELSE StrV(SubSeq(v.val, 1, MAX_LOG_LENGTH) \o <<".", ".", ".">>)

Member(x, xs) == \E k \in 1..Len(xs) : PyEq(xs[k], x)

RECURSIVE FromKeys(_, _)
\* (the two arguments are bound by a quantifier, so that each is evaluated
\* once, also where ENABLED is evaluated)
FromKeys(xs, acc) ==
    IF xs = <<>> THEN acc
    ELSE CHOOSE r \in {FromKeys(rest, seen) :
                          rest \in {Tail(xs)},
                          seen \in {IF Member(Head(xs), acc) THEN acc
                                    ELSE Append(acc, Head(xs))}} : TRUE

\* Deduplication with a slip: an input is compared with the one just before
\* it only.
RECURSIVE AdjacentOnly(_, _)
AdjacentOnly(xs, acc) ==
    IF xs = <<>> THEN acc
    ELSE AdjacentOnly(Tail(xs),
                      IF acc # <<>> /\ PyEq(acc[Len(acc)], Head(xs)) THEN acc
                      ELSE Append(acc, Head(xs)))

Unique_AdjacentOnly(xs) == AdjacentOnly(xs, <<>>)

Reversed(xs) == [k \in 1..Len(xs) |-> xs[Len(xs) - k + 1]]

\* Deduplication with a slip: an input stays where it occurred last.
Unique_LastOccurrence(xs) == Reversed(FromKeys(Reversed(xs), <<>>))

\* Deduplication left out.
Unique_KeepAll(xs) == xs

\* list(dict.fromkeys(xs)), lines 188 and 220
Unique(xs) == FromKeys(xs, <<>>)

\* dict.fromkeys(xs) raises TypeError: an element is unhashable
Unique_raises(xs) == \E k \in 1..Len(xs) : ~Hashable(xs[k])

\* The chunk size with a slip: always the full chunk.
ChunkSize_Always8(m) == 8

\* line 195
ChunkSize(m) == IF m >= 8 THEN 8 ELSE m

\* The final cut left out.
EnsureExactly_NoCut(xs, k) == xs

\* The final cut one input too late.
EnsureExactly_OneTooMany(xs, k) == IF Len(xs) > k THEN SubSeq(xs, 1, k + 1) ELSE xs

\* lines 227-229
EnsureExactly(xs, k) == IF Len(xs) > k THEN SubSeq(xs, 1, k) ELSE xs

\* The check of line 241 left out.
Accepted_Always(out) == TRUE

\* line 241: the output is accepted
Accepted(out) == Truthy(out)

\* The record with a slip: the system prompt is not stored.
Record_NoInstruction(instruction, inp, out) ==
    [instruction |-> <<>>, input |-> inp, output |-> out]

\* lines 248-252
Record(instruction, inp, out) ==
    [instruction |-> instruction, input |-> inp, output |-> out]

\* extract_list applied to what generate returned; re.sub raises TypeError
\* on a value that is no string.
Extract(t) ==
    IF t.kind = "str" THEN extract_list(t.val)
    ELSE Raise("expected string or bytes-like object")

\* Lines 206-217 for one answer of the endpoint: t is what generate returned
\* and r what extract_list did with it.  The try block ends in one of
\*   "break"      line 211
\*   "retry"      extract_list or line 210 raised, the handler ran
\*   "crash"      extract_list raised and line 215 raised inside the handler
\* and assigned tells whether line 207 assigned current_inputs.
Attempt(kind, t, r) ==
    [http |-> kind,
     inputs_text |-> t,
     assigned |-> r.ok,
     current_inputs |-> r.val,
     how |-> IF ~r.ok
             THEN IF truncate_raises(t) THEN "crash" ELSE "retry"
             ELSE IF \E k \in 1..Len(r.val) : truncate_raises(r.val[k]) THEN "retry"
             ELSE "break"]

Received(kind, t) == Attempt(kind, t, Extract(t))

\* The attempts of a chunk request, one for each answer of the endpoint.
ChunkAttempts == {Received(response.kind, generate(response)) : response \in ChunkResponses}

(***************************************************************************)
(* main(), lines 181-266                                                   *)
(***************************************************************************)
\* The validation of line 140 with a slip: a count of zero is let through.
Init_AllowsZero ==
    /\ pc = "loop"
    /\ n \in 0..MaxN
    /\ system_prompt \in SystemPrompts
    /\ all_inputs = <<>>
    /\ unique_inputs = <<>>
    /\ chunk_index = 0
    /\ missing = 0
    /\ chunk_size = 0
    /\ payload = <<>>
    /\ http = "none"
    /\ inputs_text = Unset
    /\ current_inputs = <<>>
    /\ i = 0
    /\ output = Unset
    /\ dataset = <<>>
    /\ written = <<>>
    /\ outcome = ""
    /\ text = <<>>
    /\ listed = NotListed
    /\ result = Unset

Init ==
    /\ pc = "loop"
    /\ n \in 1..MaxN
    /\ system_prompt \in SystemPrompts
    /\ all_inputs = <<>>
    /\ unique_inputs = <<>>
    /\ chunk_index = 0
    /\ missing = 0
    /\ chunk_size = 0
    /\ payload = <<>>
    /\ http = "none"
    /\ inputs_text = Unset
    /\ current_inputs = <<>>
    /\ i = 0
    /\ output = Unset
    /\ dataset = <<>>
    /\ written = <<>>
    /\ outcome = ""
    /\ text = <<>>
    /\ listed = NotListed
    /\ result = Unset

\* The test of line 189 with a slip: the loop is left one input early.
LoopBreak_OneShort ==
    /\ pc = "loop"
    /\ ~Unique_raises(all_inputs)
    /\ Len(Unique(all_inputs)) >= n - 1
    /\ unique_inputs' = Unique(all_inputs)
    /\ pc' = "ensure"
    /\ UNCHANGED <<n, system_prompt, all_inputs, chunk_index, missing,
                   chunk_size, payload, http, inputs_text, current_inputs, i,
                   output, dataset, written, outcome, text, listed, result>>

\* lines 188-190: enough unique inputs, leave the loop
LoopBreak ==
    /\ pc = "loop"
    /\ ~Unique_raises(all_inputs)
    /\ Len(Unique(all_inputs)) >= n
    /\ unique_inputs' = Unique(all_inputs)
    /\ pc' = "ensure"
    /\ UNCHANGED <<n, system_prompt, all_inputs, chunk_index, missing,
                   chunk_size, payload, http, inputs_text, current_inputs, i,
                   output, dataset, written, outcome, text, listed, result>>

\* lines 188-201: start the next chunk
ChunkRequest ==
    /\ pc = "loop"
    /\ ~Unique_raises(all_inputs)
    /\ Len(Unique(all_inputs)) < n
    /\ chunk_index < MaxChunks
    /\ unique_inputs' = Unique(all_inputs)
    /\ chunk_index' = chunk_index + 1
    /\ missing' = n - Len(Unique(all_inputs))
    /\ chunk_size' = ChunkSize(n - Len(Unique(all_inputs)))
    /\ pc' = "request"
    /\ UNCHANGED <<n, system_prompt, all_inputs, payload, http, inputs_text,
                   current_inputs, i, output, dataset, written, outcome, text,
                   listed, result>>

\* The retry with a slip: a failed attempt moves on to the next chunk number.
ChunkRetry_CountsAttempt ==
    /\ pc = "request"
    /\ \E a \in ChunkAttempts :
         /\ a.how = "retry"
         /\ payload' = Payload(Prompt(chunk_size), <<>>)
         /\ http' = a.http
         /\ inputs_text' = a.inputs_text
         /\ current_inputs' = IF a.assigned THEN a.current_inputs ELSE current_inputs
    /\ chunk_index' = chunk_index + 1
    /\ UNCHANGED <<pc, n, system_prompt, all_inputs, unique_inputs, missing,
                   chunk_size, i, output, dataset, written, outcome, text,
                   listed, result>>

\* lines 204-217: the attempt fails and the same chunk is requested again
ChunkRetry ==
    /\ pc = "request"
    /\ \E a \in ChunkAttempts :
         /\ a.how = "retry"
         /\ payload' = Payload(Prompt(chunk_size), <<>>)
         /\ http' = a.http
         /\ inputs_text' = a.inputs_text
         /\ current_inputs' = IF a.assigned THEN a.current_inputs ELSE current_inputs
    /\ UNCHANGED <<pc, n, system_prompt, all_inputs, unique_inputs,
                   chunk_index, missing, chunk_size, i, output, dataset,
                   written, outcome, text, listed, result>>

\* lines 204-224: the attempt succeeds and its inputs are appended
ChunkAccept ==
    /\ pc = "request"
    /\ \E a \in ChunkAttempts :
         /\ a.how = "break"
         /\ ~Unique_raises(all_inputs \o a.current_inputs)
         /\ payload' = Payload(Prompt(chunk_size), <<>>)
         /\ http' = a.http
         /\ inputs_text' = a.inputs_text
         /\ current_inputs' = a.current_inputs
         /\ all_inputs' = all_inputs \o a.current_inputs
         /\ unique_inputs' = Unique(all_inputs \o a.current_inputs)
    /\ pc' = "loop"
    /\ UNCHANGED <<n, system_prompt, chunk_index, missing, chunk_size, i,
                   output, dataset, written, outcome, text, listed, result>>

\* line 215: the handler itself raises TypeError, on a content that is null
ChunkCrashInHandler ==
    /\ pc = "request"
    /\ \E a \in ChunkAttempts :
         /\ a.how = "crash"
         /\ payload' = Payload(Prompt(chunk_size), <<>>)
         /\ http' = a.http
         /\ inputs_text' = a.inputs_text
    /\ pc' = "crashed"
    /\ UNCHANGED <<n, system_prompt, all_inputs, unique_inputs, chunk_index,
                   missing, chunk_size, current_inputs, i, output, dataset,
                   written, outcome, text, listed, result>>

\* lines 219-220: dict.fromkeys raises TypeError on an unhashable input
ChunkCrashInFromKeys ==
    /\ pc = "request"
    /\ \E a \in ChunkAttempts :
         /\ a.how = "break"
         /\ Unique_raises(all_inputs \o a.current_inputs)
         /\ payload' = Payload(Prompt(chunk_size), <<>>)
         /\ http' = a.http
         /\ inputs_text' = a.inputs_text
         /\ current_inputs' = a.current_inputs
         /\ all_inputs' = all_inputs \o a.current_inputs
    /\ pc' = "crashed"
    /\ UNCHANGED <<n, system_prompt, unique_inputs, chunk_index, missing,
                   chunk_size, i, output, dataset, written, outcome, text,
                   listed, result>>

\* lines 227-237: cut to n inputs and enter the output loop
EnsureExact ==
    /\ pc = "ensure"
    /\ unique_inputs' = EnsureExactly(unique_inputs, n)
    /\ dataset' = <<>>
    /\ i' = 1
    /\ pc' = IF Len(EnsureExactly(unique_inputs, n)) > 0 THEN "output" ELSE "save"
    /\ UNCHANGED <<n, system_prompt, all_inputs, chunk_index, missing,
                   chunk_size, payload, http, inputs_text, current_inputs,
                   output, written, outcome, text, listed, result>>

\* lines 239-246: the completion is empty, ask again
OutputRetry ==
    /\ pc = "output"
    /\ \E response \in OutputResponses(unique_inputs[i]) :
         /\ ~Accepted(generate(response))
         /\ payload' = Payload(unique_inputs[i], system_prompt)
         /\ http' = response.kind
         /\ output' = generate(response)
    /\ UNCHANGED <<pc, n, system_prompt, all_inputs, unique_inputs,
                   chunk_index, missing, chunk_size, inputs_text,
                   current_inputs, i, dataset, written, outcome, text, listed,
                   result>>

\* The output loop with a slip: the file is written after every record.
OutputAccept_SavesEachRecord ==
    /\ pc = "output"
    /\ \E response \in OutputResponses(unique_inputs[i]) :
         /\ Accepted(generate(response))
         /\ payload' = Payload(unique_inputs[i], system_prompt)
         /\ http' = response.kind
         /\ output' = generate(response)
         /\ dataset' = Append(dataset,
                              Record(system_prompt, unique_inputs[i], generate(response)))
         /\ written' = Append(written,
                              Append(dataset, Record(system_prompt, unique_inputs[i],
                                                     generate(response))))
    /\ i' = IF i < Len(unique_inputs) THEN i + 1 ELSE i
    /\ pc' = IF i < Len(unique_inputs) THEN "output" ELSE "save"
    /\ UNCHANGED <<n, system_prompt, all_inputs, unique_inputs, chunk_index,
                   missing, chunk_size, inputs_text, current_inputs, outcome,
                   text, listed, result>>

\* lines 239-255: the completion is kept and the record appended
OutputAccept ==
    /\ pc = "output"
    /\ \E response \in OutputResponses(unique_inputs[i]) :
         /\ Accepted(generate(response))
         /\ payload' = Payload(unique_inputs[i], system_prompt)
         /\ http' = response.kind
         /\ output' = generate(response)
         /\ dataset' = Append(dataset,
                              Record(system_prompt, unique_inputs[i], generate(response)))
    /\ i' = IF i < Len(unique_inputs) THEN i + 1 ELSE i
    /\ pc' = IF i < Len(unique_inputs) THEN "output" ELSE "save"
    /\ UNCHANGED <<n, system_prompt, all_inputs, unique_inputs, chunk_index,
                   missing, chunk_size, inputs_text, current_inputs, written,
                   outcome, text, listed, result>>

\* lines 258-266: dump the dataset; opening or writing the file may fail
Save ==
    /\ pc = "save"
    /\ \E io_ok \in BOOLEAN :
         /\ written' = IF dataset # <<>> /\ io_ok THEN Append(written, dataset)
                       ELSE written
         /\ outcome' = IF dataset = <<>> THEN "No valid samples generated."
                       ELSE IF io_ok THEN "Successfully generated"
                       ELSE "Error saving file"
    /\ pc' = "done"
    /\ UNCHANGED <<n, system_prompt, all_inputs, unique_inputs, chunk_index,
                   missing, chunk_size, payload, http, inputs_text,
                   current_inputs, i, output, dataset, text, listed, result>>

Next ==
    \/ LoopBreak
    \/ ChunkRequest
    \/ ChunkRetry
    \/ ChunkAccept
    \/ ChunkCrashInHandler
    \/ ChunkCrashInFromKeys
    \/ EnsureExact
    \/ OutputRetry
    \/ OutputAccept
    \/ Save

Spec == Init /\ [][Next]_vars

\* lines 204-220 with an answer that brings at least one input not yet
\* accumulated
ChunkProgress == ChunkAccept /\ Len(unique_inputs') > Len(unique_inputs)

\* The program takes its own steps whenever it can, and of the endpoint it is
\* assumed that it does not withhold for ever a chunk with a new input, nor
\* a non-empty completion.
Fairness ==
    /\ WF_vars(LoopBreak)
    /\ WF_vars(ChunkRequest)
    /\ WF_vars(EnsureExact)
    /\ WF_vars(Save)
    /\ SF_vars(ChunkProgress)
    /\ SF_vars(OutputAccept)

SpecFair == Spec /\ Fairness

(***************************************************************************)
(* extract_list called on its own, on every short text over a few atoms    *)
(* and on the responses above                                              *)
(***************************************************************************)
\* The longest text of the exhaustive part.
MaxTextLen == 5

ExtractAlphabet == {LB, RB, DQ, COMMA, "a", ESCN, FENCE}

ExtractTexts ==
    UNION {[1..k -> ExtractAlphabet] : k \in 0..MaxTextLen} \cup ResponseTexts

InitExtract ==
    /\ pc = "extract"
    /\ n = 1
    /\ system_prompt = <<>>
    /\ all_inputs = <<>>
    /\ unique_inputs = <<>>
    /\ chunk_index = 0
    /\ missing = 0
    /\ chunk_size = 0
    /\ payload = <<>>
    /\ http = "none"
    /\ inputs_text = Unset
    /\ current_inputs = <<>>
    /\ i = 0
    /\ output = Unset
    /\ dataset = <<>>
    /\ written = <<>>
    /\ outcome = ""
    /\ text \in ExtractTexts
    /\ listed = NotListed
    /\ result = Unset

\* lines 25-54: the call returns a list or raises ValueError
ExtractList ==
    /\ pc = "extract"
    /\ result' = extract_list(text)
    /\ pc' = IF extract_list(text).ok THEN "returned" ELSE "raised"
    /\ UNCHANGED <<n, system_prompt, all_inputs, unique_inputs, chunk_index,
                   missing, chunk_size, payload, http, inputs_text,
                   current_inputs, i, output, dataset, written, outcome, text,
                   listed>>

NextExtract == ExtractList

SpecExtract == InitExtract /\ [][NextExtract]_vars

(***************************************************************************)
(* extract_list called on list literals written from given strings, once   *)
(* bare and once inside each kind of fence                                 *)
(***************************************************************************)
\* The most strings of a written list, and the longest of them.
MaxItems == 3
MaxItemLen == 1
\* The longest string of a written list of one string.
MaxSingleLen == 4

ItemAlphabet == {"a", NL, FENCE}

ItemStrings == UNION {[1..k -> ItemAlphabet] : k \in 0..MaxItemLen}

LineAlphabet == {"a", SP, NL}

\* The lists of one string of several lines.
SingleLists == {<<s>> : s \in UNION {[1..k -> LineAlphabet] : k \in 0..MaxSingleLen}}

\* The lists of pairwise distinct strings.
ItemLists ==
    {strs \in UNION {[1..k -> ItemStrings] : k \in 0..MaxItems} :
        \A j, k \in 1..Len(strs) : j # k => strs[j] # strs[k]}
    \cup SingleLists

Fencings == {"none", "bare", "json", "python"}

WellFormed ==
    {[fencing |-> f, items |-> strs, literal |-> TRUE] : f \in Fencings, strs \in ItemLists}

\* The characters of a string as a string literal holds them: a newline is
\* written as the escape sequence.
Escape(s) == [k \in 1..Len(s) |-> IF s[k] = NL THEN ESCN ELSE s[k]]

Fenced(fencing, body) ==
    CASE fencing = "none" -> body
      [] fencing = "bare" -> <<FENCE, NL>> \o body \o <<NL, FENCE>>
      [] fencing = "json" -> <<FENCE, JSON, NL>> \o body \o <<NL, FENCE>>
      [] fencing = "python" -> <<FENCE, PYTHON, NL>> \o body \o <<NL, FENCE>>

\* The text of the list literal of the strings w.items inside w.fencing.
WrittenList(w) ==
    Fenced(w.fencing, RenderList([k \in 1..Len(w.items) |-> Escape(w.items[k])]))

InitWellFormed ==
    /\ pc = "extract"
    /\ n = 1
    /\ system_prompt = <<>>
    /\ all_inputs = <<>>
    /\ unique_inputs = <<>>
    /\ chunk_index = 0
    /\ missing = 0
    /\ chunk_size = 0
    /\ payload = <<>>
    /\ http = "none"
    /\ inputs_text = Unset
    /\ current_inputs = <<>>
    /\ i = 0
    /\ output = Unset
    /\ dataset = <<>>
    /\ written = <<>>
    /\ outcome = ""
    /\ listed \in WellFormed
    /\ text = WrittenList(listed)
    /\ result = Unset

SpecWellFormed == InitWellFormed /\ [][NextExtract]_vars

(***************************************************************************)
(* Properties                                                              *)
(***************************************************************************)
NoDup(xs) == \A j, k \in 1..Len(xs) : j # k => ~PyEq(xs[j], xs[k])

SeqEq(xs, ys) == Len(xs) = Len(ys) /\ \A k \in 1..Len(xs) : PyEq(xs[k], ys[k])

Min(a, b) == IF a <= b THEN a ELSE b

\* The index of the first occurrence of x in xs.
FirstIndex(x, xs) ==
    CHOOSE k \in 1..Len(xs) : PyEq(xs[k], x) /\ \A j \in 1..(k - 1) : ~PyEq(xs[j], x)

\* The positions of cur that hold an input neither accumulated in acc nor
\* met earlier in cur.
NewItems(cur, acc) ==
    {k \in 1..Len(cur) :
        ~Member(cur[k], acc) /\ \A j \in 1..(k - 1) : ~PyEq(cur[j], cur[k])}

NonEmptyString(v) == v.kind = "str" /\ Len(v.val) > 0

\* The collection loop has ended normally and its inputs have been handed
\* to output generation.
Handed == pc \in {"output", "save", "done"}

\* C1: once the collection loop has ended, the inputs handed to output
\* generation (unique_inputs after the cut of lines 227-229) are exactly n
\* and pairwise distinct.
C1_ExactlyNDistinct ==
    Handed => Len(unique_inputs) = n /\ NoDup(unique_inputs)

\* The loop ended with more unique inputs than asked for, and the cut was made.
C1_Witness ==
    pc = "output" /\ Len(Unique(all_inputs)) > n /\ Len(unique_inputs) = n

\* C2 as stated: in every state of the collection loop, also right after a
\* chunk has been appended, the unique inputs are at most n.
C2_NeverAboveTarget ==
    pc \in {"loop", "request", "ensure"} => Len(unique_inputs) <= n

\* C2 amended: a chunk is appended whole, so the unique inputs may exceed n,
\* by less than the size of the last chunk, but only between the append that
\* ends the loop and the cut of lines 227-229; at every chunk request they
\* are fewer than n and from the cut on they are at most n.
C2_AboveTargetOnlyUntilCut ==
    /\ pc = "request" => Len(unique_inputs) < n
    /\ Len(unique_inputs) > n =>
          /\ pc \in {"loop", "ensure"}
          /\ Len(unique_inputs) - n < Len(current_inputs)
    /\ Handed => Len(unique_inputs) <= n

\* A chunk has been appended that took the unique inputs above n.
C2_Witness ==
    pc = "loop" /\ Len(unique_inputs) > n /\ current_inputs # <<>>

\* C3: every input handed to output generation, and the input of every
\* record, is a non-empty string.
C3_InputsNonEmptyStrings ==
    /\ Handed => \A k \in 1..Len(unique_inputs) : NonEmptyString(unique_inputs[k])
    /\ \A k \in 1..Len(dataset) : NonEmptyString(dataset[k].input)

\* C4: every record has a non-empty output, and an empty completion (a
\* failed call or an empty content) appends no record: while input i is
\* being asked for, the dataset holds the records of the inputs before it,
\* and a step that stays at input i sends the request for input i again.
C4_OutputsNonEmpty ==
    /\ [](\A k \in 1..Len(dataset) : NonEmptyString(dataset[k].output))
    /\ [](pc = "output" => Len(dataset) = i - 1)
    /\ [][pc = "output" /\ pc' = "output" /\ i' = i =>
            /\ dataset' = dataset
            /\ ~Truthy(output')
            /\ payload' = Payload(unique_inputs[i], system_prompt)]_vars

\* The endpoint answered the request for the second input with an empty
\* content, after the first record was appended.
C4_Witness ==
    /\ pc = "output"
    /\ i = 2
    /\ http = "ok"
    /\ output = StrV(<<>>)
    /\ Len(dataset) = 1

\* C5: no response text makes the collection phase end with an exception.
C5_NoResponseTextCrashes ==
    ~(pc = "crashed" /\ inputs_text.kind = "str")

C7_FailedCallRetried ==
    /\ [](http \in Failures =>
            /\ pc \in {"request", "output"}
            /\ pc = "request" => inputs_text = StrV(<<>>)
            /\ pc = "output" => output = StrV(<<>>)
            /\ ENABLED (ChunkRetry \/ OutputRetry))
    /\ [][http' \in Failures =>
            /\ pc' = pc
            /\ all_inputs' = all_inputs
            /\ unique_inputs' = unique_inputs
            /\ chunk_index' = chunk_index
            /\ dataset' = dataset
            /\ i' = i]_vars
    /\ [][(http \in Failures) => (payload' = payload)]_vars

\* A call failed in the output phase, after a record was appended.
C7_Witness ==
    http \in Failures /\ pc = "output" /\ Len(dataset) > 0 /\ Len(all_inputs) > 0

\* C8: a chunk request asks for min(8, missing) inputs, where missing is n
\* minus the unique inputs at that time: between 1 and 8, and 1 when n = 1.
C8_ChunkSizeIsMin ==
    /\ [](pc = "request" =>
            /\ missing = n - Len(unique_inputs)
            /\ chunk_size = Min(8, n - Len(unique_inputs))
            /\ chunk_size >= 1
            /\ chunk_size <= 8
            /\ n = 1 => chunk_size = 1)
    /\ [][pc = "request" =>
            payload' = <<[role |-> "user",
                          content |-> Prompt(Min(8, n - Len(unique_inputs)))]>>]_vars

\* A request was sent while more than 8 inputs were missing.
C8_Witness ==
    pc = "request" /\ missing > 8 /\ chunk_size = 8 /\ payload # <<>>

\* C9: appending a chunk raises the number of unique inputs by the number of
\* its inputs that are new, so an input already accumulated adds nothing; a
\* chunk of accumulated inputs only leaves unique_inputs as it was; while
\* fewer than n are accumulated the loop goes on to the next chunk request;
\* and no input occurs twice in the final result.
C9_DuplicatesDoNotCount ==
    /\ [][pc = "request" /\ pc' = "loop" =>
            /\ Len(unique_inputs') =
                  Len(unique_inputs) + Cardinality(NewItems(current_inputs', unique_inputs))
            /\ NewItems(current_inputs', unique_inputs) = {} =>
                  SeqEq(unique_inputs', unique_inputs)]_vars
    /\ [][pc = "loop" /\ Len(unique_inputs) < n =>
            pc' = "request" /\ chunk_index' = chunk_index + 1]_vars
    /\ [](Handed => NoDup(unique_inputs))

\* Two chunks brought the same single input, and a third request was made.
C9_Witness ==
    /\ pc = "request"
    /\ chunk_index = 3
    /\ Len(all_inputs) = 2
    /\ Len(unique_inputs) = 1

\* C10: at the save step the dataset holds n records, record k made of the
\* k-th unique input, the completion obtained for it and the system prompt.
C10_DatasetPairsByIndex ==
    pc \in {"save", "done"} =>
        /\ Len(dataset) = n
        /\ \A k \in 1..Len(dataset) :
              /\ PyEq(dataset[k].input, unique_inputs[k])
              /\ dataset[k].output = StrV(Answer(unique_inputs[k]))
              /\ NonEmptyString(dataset[k].output)
              /\ dataset[k].instruction = system_prompt

\* The save step is reached with several records and a system prompt.
C10_Witness ==
    pc = "save" /\ n >= 2 /\ Len(dataset) = n /\ system_prompt # <<>>

\* The exploration stops requesting chunks after MaxChunks of them.
Capped == pc = "loop" /\ chunk_index = MaxChunks /\ Len(unique_inputs) < n

\* C11: if the endpoint does not withhold for ever a chunk with a new input
\* nor a non-empty completion, the collection loop ends with at least n
\* unique inputs and the run reaches the save step.
C11_EventuallySaved ==
    <>(Capped \/ pc \in {"save", "done"})

\* What remains true: such a run reaches the save step unless it has ended
\* with the TypeError of line 215 or line 220.
C11_SavedUnlessCrashed ==
    <>(Capped \/ pc \in {"save", "done", "crashed"})

\* The positions of atom c in s.
Positions(s, c) == {k \in 1..Len(s) : s[k] = c}

\* s has no "[", or no "]", or its last "]" comes before its first "[".
NoBracketPair(s) ==
    \/ Positions(s, LB) = {}
    \/ Positions(s, RB) = {}
    \/ \A j \in Positions(s, LB), k \in Positions(s, RB) : k < j

\* C12: extract_list raises the ValueError of line 40 on every text that,
\* once the fence markers are removed, has no "[", no "]" or its last "]"
\* before its first "["; so on every text that has neither bracket, the
\* empty text among them.
C12_NoBracketsRaises ==
    pc \in {"returned", "raised"} =>
        /\ NoBracketPair(StripFences(text)) =>
              /\ pc = "raised"
              /\ result = Raise("No valid list found in the response.")
        /\ Positions(text, LB) = {} /\ Positions(text, RB) = {} => pc = "raised"
        /\ text = <<>> => pc = "raised"

\* extract_list has raised on a text that has both brackets, in the wrong
\* order, inside fence markers.
C12_Witness ==
    /\ pc = "raised"
    /\ Positions(text, FENCE) # {}
    /\ Positions(text, LB) # {}
    /\ Positions(text, RB) # {}
    /\ NoBracketPair(StripFences(text))

\* The Python strings of a sequence of character sequences.
Strs(items) == [k \in 1..Len(items) |-> StrV(items[k])]

Holds(s, c) == \E k \in 1..Len(s) : s[k] = c

\* C13 as stated: on the text of a list literal of pairwise distinct
\* strings, fenced or not, extract_list returns those strings in their order.
C13_ReturnsTheItems ==
    pc \in {"returned", "raised"} /\ listed.literal =>
        pc = "returned" /\ SeqEq(result.val, Strs(listed.items))

\* The list is a single string with a newline in it: line 52 splits it.
SingleMultiLine(items) == Len(items) = 1 /\ Holds(items[1], NL)

\* A string holds a fence marker: line 34 removes it from the string too.
FenceInside(items) == \E k \in 1..Len(items) : Holds(items[k], FENCE)

\* C13 amended: extract_list returns the strings of the list literal in
\* their order, fenced or not, unless the list is a single string with a
\* newline in it or one of the strings holds a fence marker.
C13_ReturnsTheItemsUnlessSplit ==
    /\ pc \in {"returned", "raised"}
    /\ listed.literal
    /\ ~SingleMultiLine(listed.items)
    /\ ~FenceInside(listed.items)
    => pc = "returned" /\ SeqEq(result.val, Strs(listed.items))

\* A fenced list of several strings, one of them with a newline in it, has
\* been returned as it was written.
C13_Witness ==
    /\ pc = "returned"
    /\ listed.fencing = "json"
    /\ Len(listed.items) >= 2
    /\ Holds(listed.items[1], NL)
    /\ ~FenceInside(listed.items)
    /\ SeqEq(result.val, Strs(listed.items))

\* The ends of the lines of s: the positions of its newlines, and the
\* positions before its first and after its last character.
Breaks(s) == {0, Len(s) + 1} \cup Positions(s, NL)

\* The line of s that starts after break b, without the blanks around it.
LineAfter(s, b) ==
    LET e == CHOOSE c \in Breaks(s) : c > b /\ \A d \in Breaks(s) : d > b => c <= d
        inked == {k \in (b + 1)..(e - 1) : s[k] # SP}
    IN  IF inked = {} THEN <<>>
        ELSE SubSeq(s, CHOOSE k \in inked : \A j \in inked : k <= j,
                       CHOOSE k \in inked : \A j \in inked : k >= j)

\* The non-blank lines of s, trimmed, in their order.
TrimmedLines(s) ==
    LET starts == {b \in Breaks(s) \ {Len(s) + 1} : LineAfter(s, b) # <<>>}
    IN  [m \in 1..Cardinality(starts) |->
            StrV(LineAfter(s, CHOOSE b \in starts :
                                  Cardinality({c \in starts : c < b}) = m - 1))]

\* C14: when the list literal holds exactly one string and that string has
\* a newline in it, extract_list returns its lines, each trimmed, the empty
\* ones left out; every other list is returned element by element.
C14_SingleMultiLineSplit ==
    pc \in {"returned", "raised"} /\ listed.literal /\ ~FenceInside(listed.items) =>
        /\ pc = "returned"
        /\ SeqEq(result.val,
                 IF SingleMultiLine(listed.items) THEN TrimmedLines(listed.items[1])
                 ELSE Strs(listed.items))

\* A single string of three lines, the last two of them blank, has been
\* returned as the one line that is not.
C14_Witness ==
    /\ pc = "returned"
    /\ listed.items = <<<<"a", NL, NL, SP>>>>
    /\ Len(result.val) = 1
    /\ result.val[1] = StrV(<<"a">>)

\* extract_list returned a list for t, the value generate returned.
Parsed(t) == \E a \in ChunkAttempts : a.inputs_text = t /\ a.assigned

\* C15: an attempt whose response extract_list does not parse leaves the
\* inputs, the chunk number, the chunk size and the prompt as they were and
\* asks again; the inputs change only in a step that parsed a response, and
\* the chunk number and size change only at the head of the loop, after a
\* parsed response (or before the first request).
C15_FailedAttemptChangesNothing ==
    /\ [][pc = "request" /\ ~Parsed(inputs_text') =>
            /\ all_inputs' = all_inputs
            /\ unique_inputs' = unique_inputs
            /\ chunk_index' = chunk_index
            /\ chunk_size' = chunk_size
            /\ missing' = missing
            /\ payload' = Payload(Prompt(chunk_size), <<>>)
            /\ pc' \in {"request", "crashed"}]_vars
    /\ [][pc = "request" /\ pc' = "request" =>
            /\ all_inputs' = all_inputs
            /\ chunk_index' = chunk_index
            /\ chunk_size' = chunk_size]_vars
    /\ [][all_inputs' # all_inputs => pc = "request" /\ Parsed(inputs_text')]_vars
    /\ [][chunk_index' # chunk_index \/ chunk_size' # chunk_size =>
            pc = "loop" /\ (chunk_index = 0 \/ Parsed(inputs_text))]_vars

\* The second chunk has been asked for again after a response without a
\* list, the inputs of the first chunk being kept.
C15_Witness ==
    /\ pc = "request"
    /\ chunk_index = 2
    /\ http = "ok"
    /\ inputs_text.kind = "str"
    /\ ~Parsed(inputs_text)
    /\ Len(all_inputs) > 0

IsPrefix(xs, ys) ==
    Len(xs) <= Len(ys) /\ \A k \in 1..Len(xs) : PyEq(xs[k], ys[k])

\* C16: unique_inputs starts empty, and every step of the collection loop
\* leaves what it held as a prefix of what it holds afterwards: no input is
\* removed or moved, and a new one comes after those already there.
C16_UniqueAppendOnly ==
    /\ unique_inputs = <<>>
    /\ [][(pc \in {"loop", "request"}) => IsPrefix(unique_inputs, unique_inputs')]_vars
    /\ [][pc = "request" /\ pc' = "loop" =>
            /\ IsPrefix(all_inputs, all_inputs')
            /\ \A k \in (Len(unique_inputs) + 1)..Len(unique_inputs') :
                  /\ Member(unique_inputs'[k], current_inputs')
                  /\ ~Member(unique_inputs'[k], unique_inputs)]_vars

\* The second chunk repeated an input of the first, which kept its place.
C16_Witness ==
    /\ pc = "loop"
    /\ chunk_index = 2
    /\ Len(unique_inputs) >= 2
    /\ Len(all_inputs) > Len(unique_inputs)
    /\ Len(current_inputs) < Len(unique_inputs)
    /\ PyEq(all_inputs[1], current_inputs[1])

Collecting == pc \in {"loop", "request", "ensure"}

\* C17: a completion for an input is asked for only when at least n unique
\* inputs are accumulated; once that has begun no chunk is asked for and the
\* inputs stay as they are; the inputs are taken one at a time in their
\* order, the request for the next one being sent only after a non-empty
\* completion of the one before was recorded.
C17_PhasesInOrder ==
    /\ [](pc = "output" =>
            /\ Len(Unique(all_inputs)) >= n
            /\ i \in 1..Len(unique_inputs)
            /\ Len(dataset) = i - 1
            /\ \A k \in 1..Len(dataset) :
                  /\ PyEq(dataset[k].input, unique_inputs[k])
                  /\ Truthy(dataset[k].output))
    /\ [](Collecting => dataset = <<>> /\ output = Unset)
    /\ [][Handed =>
            /\ ~Collecting'
            /\ all_inputs' = all_inputs
            /\ unique_inputs' = unique_inputs
            /\ chunk_index' = chunk_index]_vars
    /\ [][pc = "request" => payload' = Payload(Prompt(chunk_size), <<>>)]_vars
    /\ [][pc = "output" =>
            /\ payload' = Payload(unique_inputs[i], system_prompt)
            /\ i' \in {i, i + 1}
            /\ i' = i + 1 =>
                  /\ Len(dataset') = i
                  /\ PyEq(dataset'[i].input, unique_inputs[i])
                  /\ Truthy(dataset'[i].output)]_vars

\* Two chunks were collected and the completion of the second input is
\* being asked for, the first one recorded.
C17_Witness ==
    /\ pc = "output"
    /\ chunk_index = 2
    /\ i = 2
    /\ Len(dataset) = 1
    /\ payload = Payload(unique_inputs[1], system_prompt)

\* C18: the file is written at most once, by the save step, and what is
\* written is the dataset with a record for every input; before the run is
\* done, so during collection, during output generation and in every retry
\* loop, nothing is written.
C18_WrittenOnceAtEnd ==
    /\ [](Len(written) <= 1)
    /\ [](pc # "done" => written = <<>>)
    /\ [](written # <<>> =>
            /\ written[1] = dataset
            /\ Len(dataset) = Len(unique_inputs)
            /\ \A k \in 1..Len(dataset) : PyEq(dataset[k].input, unique_inputs[k]))
    /\ [][written' # written => pc = "save" /\ pc' = "done"]_vars

\* The run is done and the file holds the records of several inputs.
C18_Witness ==
    /\ pc = "done"
    /\ Len(written) = 1
    /\ Len(written[1]) = n
    /\ n >= 2
    /\ outcome = "Successfully generated"

\* C19: with n >= 1 the dataset is not empty when the save step is
\* reached: it holds n records, the run never ends with the log line of
\* line 266, and what the save step writes, when the file can be written,
\* is those n records.
C19_NeverNoSamples ==
    /\ outcome # "No valid samples generated."
    /\ pc \in {"save", "done"} => dataset # <<>> /\ Len(dataset) = n
    /\ pc = "done" =>
          /\ outcome \in {"Successfully generated", "Error saving file"}
          /\ outcome = "Successfully generated" => written = <<dataset>>
          /\ outcome = "Error saving file" => written = <<>>

\* The save step was reached with its n records and the file could not be
\* written.
C19_Witness ==
    /\ pc = "done"
    /\ outcome = "Error saving file"
    /\ Len(dataset) = n
    /\ written = <<>>

=============================================================================
